---- MODULE Spec2Model ----
(***************************************************************************)
(* Model of the person generator and query engine                          *)
(* (medida_estructuras/generador.cpp, medida_clases/generador.cpp).        *)
(*                                                                         *)
(* A std::string is a sequence of one-character strings.  A thrown         *)
(* exception, a null pointer and undefined behaviour are outcome records   *)
(* told apart by their "tipo" field.  Fields of Persona that no operation  *)
(* of generador.cpp reads after construction (nombre, apellido,            *)
(* ingresosAnuales, declaranteRenta) are left out of the record.           *)
(***************************************************************************)
EXTENDS Integers, Sequences, FiniteSets, TLC

VARIABLES
    modulo,     \* which build runs: "estructuras" or "clases"
    contador,   \* static long contador of generarID
    personas,   \* the caller's std::vector<Persona>
    emitidos,   \* history: every id returned by generarID, in order
    cedula,     \* the string handed to calcularGrupoCorrectoPorCedula
    hilos,      \* the threads that call generarID: where each one is
    menu,       \* main(): whether the process runs, whether it holds a vector
    ret         \* outcome of the last library call or menu iteration

vars == <<modulo, contador, personas, emitidos, cedula, hilos, menu, ret>>

----------------------------------------------------------------------------
(* Bounds of the exploration *)

\* largest n handed to generarColeccion
MaxN == 2
\* ids issued in a run of Spec
MaxIssued == 3
\* longest collection handed to the query engine
MaxColeccion == 2
\* ids issued in a run of SpecLargo (more than 100: every two-digit ending)
MaxLargo == 101
\* longest id string handed to calcularGrupoCorrectoPorCedula
MaxCedulaLen == 3
\* longest collection handed to the group statistics
MaxMiembros == 3

----------------------------------------------------------------------------
(* Program constants *)

ContadorInicial == 1000000000
AnioReferencia == 2025
AnioBase == 1960
PatrimonioMax == 2000000000
\* INT_MAX of the 32-bit int std::stoi returns
IntMax == 2^31 - 1

Modulos == {"estructuras", "clases"}

\* the 20 cities of ciudadesColombia, written without their accents
ciudadesColombia == <<"Bogota", "Medellin", "Cali", "Barranquilla", "Cartagena",
                      "Bucaramanga", "Pereira", "Santa Marta", "Cucuta", "Ibague",
                      "Manizales", "Pasto", "Neiva", "Villavicencio", "Armenia",
                      "Sincelejo", "Valledupar", "Monteria", "Popayan", "Tunja">>

----------------------------------------------------------------------------
(* Strings and the standard conversions *)

Digitos == <<"0", "1", "2", "3", "4", "5", "6", "7", "8", "9">>
DigitSet == {Digitos[i] : i \in 1..10}

DigitChar(d) == Digitos[d + 1]
ValorDe == [c \in DigitSet |-> CHOOSE d \in 0..9 : Digitos[d + 1] = c]
DigitVal(c) == ValorDe[c]

\* std::isspace in the "C" locale; of these only the blank is in the alphabet
EsEspacio(c) == c \in {" ", "\t", "\n", "\r"}

\* std::to_string of a non-negative integer
RECURSIVE ToStringNat(_)
ToStringNat(n) ==
    IF n < 10 THEN <<DigitChar(n)>>
    ELSE Append(ToStringNat(n \div 10), DigitChar(n % 10))

\* std::to_string(long) / std::to_string(int)
to_string(n) == IF n < 0 THEN <<"-">> \o ToStringNat(0 - n) ELSE ToStringNat(n)

RECURSIVE SaltarEspacios(_)
SaltarEspacios(s) ==
    IF s # <<>> /\ EsEspacio(Head(s)) THEN SaltarEspacios(Tail(s)) ELSE s

RECURSIVE PrefijoDigitos(_)
PrefijoDigitos(s) ==
    IF s # <<>> /\ Head(s) \in DigitSet
    THEN <<Head(s)>> \o PrefijoDigitos(Tail(s))
    ELSE <<>>

RECURSIVE QuitarCeros(_)
QuitarCeros(s) ==
    IF Len(s) > 1 /\ Head(s) = "0" THEN QuitarCeros(Tail(s)) ELSE s

RECURSIVE ValorDigitos(_)
ValorDigitos(s) ==
    IF s = <<>> THEN 0
    ELSE 10 * ValorDigitos(SubSeq(s, 1, Len(s) - 1)) + DigitVal(s[Len(s)])

\* does the digit string d (no leading zeros) exceed the magnitude an int holds
FueraDeRango(d, negativo) ==
    \/ Len(d) > 10
    \/ /\ Len(d) = 10
       /\ LET alto == ValorDigitos(SubSeq(d, 1, 9))
              bajo == DigitVal(d[10])
              tope == IF negativo THEN 8 ELSE 7
          IN  alto > IntMax \div 10 \/ (alto = IntMax \div 10 /\ bajo > tope)

Ok(v) == [tipo |-> "ok", valor |-> v]
Lanza(e) == [tipo |-> e, valor |-> 0]

\* std::stoi(s): skip blanks, take an optional sign, then the longest run of
\* digits; no digit -> std::invalid_argument, too large -> std::out_of_range
Stoi(s) ==
    LET t == SaltarEspacios(s)
        negativo == t # <<>> /\ Head(t) = "-"
        u == IF t # <<>> /\ Head(t) \in {"+", "-"} THEN Tail(t) ELSE t
        d == QuitarCeros(PrefijoDigitos(u))
    IN  IF d = <<>> THEN Lanza("invalid_argument")
        ELSE IF FueraDeRango(d, negativo) THEN Lanza("out_of_range")
        ELSE IF negativo /\ Len(d) = 10 /\ ValorDigitos(SubSeq(d, 1, 9)) = IntMax \div 10
                         /\ DigitVal(d[10]) = 8
             THEN Ok((0 - IntMax) - 1)
        ELSE Ok(IF negativo THEN 0 - ValorDigitos(d) ELSE ValorDigitos(d))

\* s.substr(pos) with a 0-based pos
Substr(s, pos) == SubSeq(s, pos + 1, Len(s))

\* s.find_last_of(c) + 1: std::string::npos + 1 wraps to 0
FindLastOfMasUno(s, c) ==
    IF \E i \in 1..Len(s) : s[i] = c
    THEN CHOOSE i \in 1..Len(s) : s[i] = c /\ \A j \in (i + 1)..Len(s) : s[j] # c
    ELSE 0

----------------------------------------------------------------------------
(* Classification *)

\* a boundary slip: 39 is sent to B
calcularGrupoLimiteCorrido(cedula_) ==
    IF Len(cedula_) < 2 THEN Lanza("invalid_argument")
    ELSE LET r == Stoi(Substr(cedula_, Len(cedula_) - 2))
         IN  IF r.tipo # "ok" THEN r
             ELSE IF r.valor >= 0 /\ r.valor < 39 THEN Ok("A")
             ELSE IF r.valor >= 39 /\ r.valor <= 79 THEN Ok("B")
             ELSE Ok("C")

\* the length check lets one-character ids through
calcularGrupoSinLargoMinimo(cedula_) ==
    IF Len(cedula_) < 1 THEN Lanza("invalid_argument")
    ELSE LET r == Stoi(Substr(cedula_, IF Len(cedula_) < 2 THEN 0 ELSE Len(cedula_) - 2))
         IN  IF r.tipo # "ok" THEN r
             ELSE IF r.valor >= 0 /\ r.valor <= 39 THEN Ok("A")
             ELSE IF r.valor >= 40 /\ r.valor <= 79 THEN Ok("B")
             ELSE Ok("C")

\* the number is read from the whole id instead of its last two characters
calcularGrupoCedulaEntera(cedula_) ==
    IF Len(cedula_) < 2 THEN Lanza("invalid_argument")
    ELSE LET r == Stoi(cedula_)
         IN  IF r.tipo # "ok" THEN r
             ELSE IF r.valor >= 0 /\ r.valor <= 39 THEN Ok("A")
             ELSE IF r.valor >= 40 /\ r.valor <= 79 THEN Ok("B")
             ELSE Ok("C")

\* calcularGrupoCorrectoPorCedula: the exception of std::stoi propagates
calcularGrupoCorrectoPorCedula(cedula_) ==
    IF Len(cedula_) < 2 THEN Lanza("invalid_argument")
    ELSE LET r == Stoi(Substr(cedula_, Len(cedula_) - 2))
         IN  IF r.tipo # "ok" THEN r
             ELSE IF r.valor >= 0 /\ r.valor <= 39 THEN Ok("A")
             ELSE IF r.valor >= 40 /\ r.valor <= 79 THEN Ok("B")
             ELSE Ok("C")

----------------------------------------------------------------------------
(* Random draws *)

\* the values of rand() % k the exploration takes: the two ends of 0..k-1
RandMod(k) == {0, k - 1}

\* the values of (rand() % 28, rand() % 12, rand() % 50) drawn for one date
FechaMuestras == {<<0, 0, 0>>, <<28 - 1, 12 - 1, 50 - 1>>}

\* the uniform variate behind one randomDouble call: 0 = the lower end of the
\* interval, 1 = its upper end
Unidad == {0, 1}

\* everything generarPersona draws for one person
Sorteos == [fecha : FechaMuestras, ciudad : RandMod(Len(ciudadesColombia)),
            uPatrimonio : Unidad, uDeudas : Unidad]

----------------------------------------------------------------------------
(* Scalar generators *)

generarFechaNacimiento(f) ==
    to_string(1 + f[1]) \o <<"/">> \o to_string(1 + f[2]) \o <<"/">>
        \o to_string(AnioBase + f[3])

\* the counter is handed out again: the increment is lost
generarIDSinIncremento(c) == [id |-> to_string(c), contador |-> c]

\* generarID: return std::to_string(contador++)
generarID(c) == [id |-> to_string(c), contador |-> c + 1]

\* min + (max - min) * u for the variate u
randomDouble(min, max, u) == min + (max - min) * u

\* x * 0.7; exact on the multiples of 10 the draws produce
Por07(x) == 7 * (x \div 10)

----------------------------------------------------------------------------
(* generarPersona *)

Persona(id, ciudad, fecha, grupo, edad, patrimonio, deudas) ==
    [id |-> id, ciudadNacimiento |-> ciudad, fechaNacimiento |-> fecha,
     grupoDeclaracion |-> grupo, edad |-> edad, patrimonio |-> patrimonio,
     deudas |-> deudas]

\* 2025 - std::stoi(fecha.substr(fecha.find_last_of('/') + 1))
EdadDeFecha(fecha) ==
    LET a == Stoi(Substr(fecha, FindLastOfMasUno(fecha, "/")))
    IN  IF a.tipo = "ok" THEN Ok(AnioReferencia - a.valor) ELSE a

\* the first exception among the outcomes, or ok
PrimerFallo(outs) ==
    IF \E i \in 1..Len(outs) : outs[i].tipo # "ok"
    THEN outs[CHOOSE i \in 1..Len(outs) :
                 outs[i].tipo # "ok" /\ \A j \in 1..(i - 1) : outs[j].tipo = "ok"].tipo
    ELSE "ok"

\* the age is taken from the current year of a run in 2026
generarPersonaEdadPorReloj(c, s) ==
    LET g == generarID(c)
        fecha == generarFechaNacimiento(s.fecha)
        a == Stoi(Substr(fecha, FindLastOfMasUno(fecha, "/")))
        edad == IF a.tipo = "ok" THEN Ok((AnioReferencia + 1) - a.valor) ELSE a
        patrimonio == randomDouble(0, PatrimonioMax, s.uPatrimonio)
        deudas == randomDouble(0, Por07(patrimonio), s.uDeudas)
        grupo == calcularGrupoCorrectoPorCedula(g.id)
    IN  [tipo |-> PrimerFallo(<<edad, grupo>>),
         persona |-> Persona(g.id, ciudadesColombia[s.ciudad + 1], fecha,
                             grupo.valor, edad.valor, patrimonio, deudas),
         contador |-> g.contador]

\* the debt is drawn up to the whole net worth
generarPersonaDeudaSinTope(c, s) ==
    LET g == generarID(c)
        fecha == generarFechaNacimiento(s.fecha)
        edad == EdadDeFecha(fecha)
        patrimonio == randomDouble(0, PatrimonioMax, s.uPatrimonio)
        deudas == randomDouble(0, patrimonio, s.uDeudas)
        grupo == calcularGrupoCorrectoPorCedula(g.id)
    IN  [tipo |-> PrimerFallo(<<edad, grupo>>),
         persona |-> Persona(g.id, ciudadesColombia[s.ciudad + 1], fecha,
                             grupo.valor, edad.valor, patrimonio, deudas),
         contador |-> g.contador]

\* medida_estructuras: the group comes from calcularGrupoCorrectoPorCedula
generarPersonaEstructuras(c, s) ==
    LET g == generarID(c)
        fecha == generarFechaNacimiento(s.fecha)
        edad == EdadDeFecha(fecha)
        patrimonio == randomDouble(0, PatrimonioMax, s.uPatrimonio)
        deudas == randomDouble(0, Por07(patrimonio), s.uDeudas)
        grupo == calcularGrupoCorrectoPorCedula(g.id)
    IN  [tipo |-> PrimerFallo(<<edad, grupo>>),
         persona |-> Persona(g.id, ciudadesColombia[s.ciudad + 1], fecha,
                             grupo.valor, edad.valor, patrimonio, deudas),
         contador |-> g.contador]

\* the inline rule with the A/B limit one too high
generarPersonaClasesLimite40(c, s) ==
    LET g == generarID(c)
        fecha == generarFechaNacimiento(s.fecha)
        ult == Stoi(Substr(g.id, Len(g.id) - 2))
        grupo == IF ult.tipo # "ok" THEN ult
                 ELSE IF ult.valor >= 0 /\ ult.valor <= 40 THEN Ok("A")
                 ELSE IF ult.valor >= 41 /\ ult.valor <= 79 THEN Ok("B")
                 ELSE Ok("C")
        edad == EdadDeFecha(fecha)
        patrimonio == randomDouble(0, PatrimonioMax, s.uPatrimonio)
        deudas == randomDouble(0, Por07(patrimonio), s.uDeudas)
    IN  [tipo |-> PrimerFallo(<<grupo, edad>>),
         persona |-> Persona(g.id, ciudadesColombia[s.ciudad + 1], fecha,
                             grupo.valor, edad.valor, patrimonio, deudas),
         contador |-> g.contador]

\* medida_clases: the group is computed inline from the last two characters
generarPersonaClases(c, s) ==
    LET g == generarID(c)
        fecha == generarFechaNacimiento(s.fecha)
        ult == Stoi(Substr(g.id, Len(g.id) - 2))
        grupo == IF ult.tipo # "ok" THEN ult
                 ELSE IF ult.valor >= 0 /\ ult.valor <= 39 THEN Ok("A")
                 ELSE IF ult.valor >= 40 /\ ult.valor <= 79 THEN Ok("B")
                 ELSE Ok("C")
        edad == EdadDeFecha(fecha)
        patrimonio == randomDouble(0, PatrimonioMax, s.uPatrimonio)
        deudas == randomDouble(0, Por07(patrimonio), s.uDeudas)
    IN  [tipo |-> PrimerFallo(<<grupo, edad>>),
         persona |-> Persona(g.id, ciudadesColombia[s.ciudad + 1], fecha,
                             grupo.valor, edad.valor, patrimonio, deudas),
         contador |-> g.contador]

generarPersona(m, c, s) ==
    IF m = "estructuras" THEN generarPersonaEstructuras(c, s)
    ELSE generarPersonaClases(c, s)

----------------------------------------------------------------------------
(* generarColeccion *)

\* the loop of generarColeccion from iteration i on: acc is the vector built
\* so far, c the counter; an exception of generarPersona ends the call
RECURSIVE ColeccionDesde(_, _, _, _, _, _)
ColeccionDesde(m, n, ss, i, acc, c) ==
    IF i > n THEN [tipo |-> "ok", personas |-> acc, contador |-> c]
    ELSE LET r == generarPersona(m, c, ss[i])
         IN  IF r.tipo # "ok"
             THEN [tipo |-> r.tipo, personas |-> acc, contador |-> r.contador]
             ELSE ColeccionDesde(m, n, ss, i + 1, Append(acc, r.persona), r.contador)

\* the loop runs one time too few
generarColeccionUnoMenos(m, n, c, ss) == ColeccionDesde(m, n - 1, ss, 1, <<>>, c)

\* generarColeccion(n) with the draws ss[1..n] of its n calls of generarPersona
generarColeccion(m, n, c, ss) == ColeccionDesde(m, n, ss, 1, <<>>, c)

----------------------------------------------------------------------------
(* Whole-collection selectors *)

\* std::max_element over the keys with comparator a < b: the iterator is an
\* index 1..Len, Len + 1 is end(); the first of the largest keys wins
RECURSIVE MaxElementDesde(_, _, _)
MaxElementDesde(keys, largest, i) ==
    IF i > Len(keys) THEN largest
    ELSE MaxElementDesde(keys, IF keys[largest] < keys[i] THEN i ELSE largest, i + 1)

\* the comparator is a <= b: the last of the largest keys wins
max_elementUltimoMaximo(keys) ==
    IF keys = <<>> THEN 1
    ELSE CHOOSE i \in 1..Len(keys) :
            /\ \A j \in 1..Len(keys) : keys[j] <= keys[i]
            /\ \A j \in (i + 1)..Len(keys) : keys[j] < keys[i]

max_element(keys) == IF keys = <<>> THEN 1 ELSE MaxElementDesde(keys, 1, 2)

Edades(ps) == [i \in 1..Len(ps) |-> ps[i].edad]
Patrimonios(ps) == [i \in 1..Len(ps) |-> ps[i].patrimonio]

\* what dereferencing end() of a vector can do: the process dies, or the call
\* returns a Persona built from whatever memory is there
DesreferenciaDeEnd == {[tipo |-> "crash"], [tipo |-> "basura"]}

\* *it for an iterator into ps, copied out
CopiaDe(ps, it) ==
    IF it > Len(ps) THEN DesreferenciaDeEnd
    ELSE {[tipo |-> "persona", idx |-> it, persona |-> ps[it]]}

\* the set of outcomes of buscarMasLongevoPorValor(ps)
buscarMasLongevoPorValor(ps) == CopiaDe(ps, max_element(Edades(ps)))

\* the set of outcomes of buscarMasPatrimonioPorValor(ps)
buscarMasPatrimonioPorValor(ps) == CopiaDe(ps, max_element(Patrimonios(ps)))

NullPtr == [tipo |-> "nullptr"]
Puntero(i) == [tipo |-> "puntero", idx |-> i]

\* the emptiness check is missing: &(*end()) is handed back
buscarMasLongevoSinChequeo(ps) == Puntero(max_element(Edades(ps)))

buscarMasLongevoPorReferencia(ps) ==
    IF ps = <<>> THEN NullPtr ELSE Puntero(max_element(Edades(ps)))

buscarMasPatrimonioPorReferencia(ps) ==
    IF ps = <<>> THEN NullPtr ELSE Puntero(max_element(Patrimonios(ps)))

----------------------------------------------------------------------------
(* Selectors with a search key: an id, a city or a declaration group *)

\* the search starts at the back: the last element with the id is found
buscarPorIDDesdeElFinal(ps, id) ==
    IF \E i \in 1..Len(ps) : ps[i].id = id
    THEN Puntero(CHOOSE i \in 1..Len(ps) :
                    ps[i].id = id /\ \A j \in (i + 1)..Len(ps) : ps[j].id # id)
    ELSE NullPtr

\* std::find_if from begin(): the iterator is the first index whose element
\* satisfies p.id == id, Len + 1 (end()) when there is none
RECURSIVE FindIfIdDesde(_, _, _)
FindIfIdDesde(ps, id, i) ==
    IF i > Len(ps) THEN i
    ELSE IF ps[i].id = id THEN i ELSE FindIfIdDesde(ps, id, i + 1)

buscarPorID(ps, id) ==
    LET it == FindIfIdDesde(ps, id, 1)
    IN  IF it # Len(ps) + 1 THEN Puntero(it) ELSE NullPtr

Indices(ps) == [i \in 1..Len(ps) |-> i]

\* the loops that fill filtradas: the positions in ps of the elements pushed,
\* in the order they are pushed
filtrarPorCiudad(ps, ciudad) ==
    SelectSeq(Indices(ps), LAMBDA i : ps[i].ciudadNacimiento = ciudad)

filtrarPorGrupo(ps, grupo) ==
    SelectSeq(Indices(ps), LAMBDA i : ps[i].grupoDeclaracion = grupo)

EdadesDe(ps, filtradas) == [k \in 1..Len(filtradas) |-> ps[filtradas[k]].edad]
PatrimoniosDe(ps, filtradas) == [k \in 1..Len(filtradas) |-> ps[filtradas[k]].patrimonio]

\* *std::max_element over filtradas, returned as a copy (by value) or as the
\* stored pointer into ps (by reference)
CopiaDelMayor(ps, filtradas, keys) ==
    LET it == filtradas[max_element(keys)]
    IN  [tipo |-> "persona", idx |-> it, persona |-> ps[it]]

PunteroAlMayor(filtradas, keys) == Puntero(filtradas[max_element(keys)])

\* the city is not looked at: the oldest of the whole collection is returned
buscarMasLongevoEnCiudadSinFiltro(ps, ciudad) ==
    IF ps = <<>> THEN Lanza("runtime_error")
    ELSE CopiaDelMayor(ps, Indices(ps), Edades(ps))

buscarMasLongevoPorValorEnCiudad(ps, ciudad) ==
    LET filtradas == filtrarPorCiudad(ps, ciudad)
    IN  IF filtradas = <<>> THEN Lanza("runtime_error")
        ELSE CopiaDelMayor(ps, filtradas, EdadesDe(ps, filtradas))

buscarMasLongevoPorReferenciaEnCiudad(ps, ciudad) ==
    LET filtradas == filtrarPorCiudad(ps, ciudad)
    IN  IF filtradas = <<>> THEN Lanza("runtime_error")
        ELSE PunteroAlMayor(filtradas, EdadesDe(ps, filtradas))

buscarMasPatrimonioPorValorEnCiudad(ps, ciudad) ==
    LET filtradas == filtrarPorCiudad(ps, ciudad)
    IN  IF filtradas = <<>> THEN Lanza("runtime_error")
        ELSE CopiaDelMayor(ps, filtradas, PatrimoniosDe(ps, filtradas))

buscarMasPatrimonioPorReferenciaEnCiudad(ps, ciudad) ==
    LET filtradas == filtrarPorCiudad(ps, ciudad)
    IN  IF filtradas = <<>> THEN Lanza("runtime_error")
        ELSE PunteroAlMayor(filtradas, PatrimoniosDe(ps, filtradas))

buscarMasPatrimonioPorValorEnGrupo(ps, grupo) ==
    LET filtradas == filtrarPorGrupo(ps, grupo)
    IN  IF filtradas = <<>> THEN Lanza("runtime_error")
        ELSE CopiaDelMayor(ps, filtradas, PatrimoniosDe(ps, filtradas))

\* a group without members is answered like the empty collection of the
\* whole-collection selectors: with the null pointer
buscarMasPatrimonioEnGrupoNuloSiVacio(ps, grupo) ==
    LET filtradas == filtrarPorGrupo(ps, grupo)
    IN  IF filtradas = <<>> THEN NullPtr
        ELSE PunteroAlMayor(filtradas, PatrimoniosDe(ps, filtradas))

buscarMasPatrimonioPorReferenciaEnGrupo(ps, grupo) ==
    LET filtradas == filtrarPorGrupo(ps, grupo)
    IN  IF filtradas = <<>> THEN Lanza("runtime_error")
        ELSE PunteroAlMayor(filtradas, PatrimoniosDe(ps, filtradas))

\* a group without members is reported as the selectors report it
listarPersonasEnGrupoLanzaSiVacio(ps, grupo) ==
    LET filtradas == filtrarPorGrupo(ps, grupo)
    IN  IF filtradas = <<>> THEN Lanza("runtime_error")
        ELSE [tipo |-> "copias",
              elems |-> [k \in 1..Len(filtradas) |-> ps[filtradas[k]]]]

\* the vector of copies that is returned
listarPersonasPorValorEnGrupo(ps, grupo) ==
    LET filtradas == filtrarPorGrupo(ps, grupo)
    IN  [tipo |-> "copias", elems |-> [k \in 1..Len(filtradas) |-> ps[filtradas[k]]]]

\* the vector of pointers into ps that is returned
listarPersonasPorReferenciaEnGrupo(ps, grupo) ==
    [tipo |-> "punteros", elems |-> filtrarPorGrupo(ps, grupo)]

----------------------------------------------------------------------------
(* Statistics per declaration group *)

\* std::vector<std::string> grupos = {"A", "B", "C"}
grupos == <<"A", "B", "C">>

\* A double that is a sum of integers divided by a size is kept as the exact
\* fraction suma / n; doubles represent the sums of the collections checked
\* here exactly and order their quotients as the fractions are ordered.
\* double mayorPromedio = 0.0
PromedioInicial == [suma |-> 0, n |-> 1]

\* promedio > mayorPromedio
EsMayor(promedio, mayorPromedio) ==
    promedio.suma * mayorPromedio.n > mayorPromedio.suma * promedio.n

\* the loop that adds the metric of every element of filtradas
RECURSIVE SumaDesde(_, _, _, _)
SumaDesde(ps, filtradas, campo, k) ==
    IF k > Len(filtradas) THEN 0
    ELSE ps[filtradas[k]][campo] + SumaDesde(ps, filtradas, campo, k + 1)

\* the loop over grupos from its g-th round on, with the values grupoMayor,
\* mayorPromedio and filtradas have when the round starts
RECURSIVE GrupoMayorDesde(_, _, _, _, _, _)
GrupoMayorDesde(ps, campo, g, grupoMayor, mayorPromedio, filtradas) ==
    IF g > Len(grupos) THEN grupoMayor
    ELSE LET llenas == filtradas \o filtrarPorGrupo(ps, grupos[g])
             promedio == [suma |-> SumaDesde(ps, llenas, campo, 1), n |-> Len(llenas)]
         IN  IF llenas = <<>>
             THEN GrupoMayorDesde(ps, campo, g + 1, grupoMayor, mayorPromedio, llenas)
             ELSE IF EsMayor(promedio, mayorPromedio)
                  THEN GrupoMayorDesde(ps, campo, g + 1, grupos[g], promedio, <<>>)
                  ELSE GrupoMayorDesde(ps, campo, g + 1, grupoMayor, mayorPromedio, <<>>)

encontrarGrupoMayorPatrimonioPorValor(ps) ==
    GrupoMayorDesde(ps, "patrimonio", 1, "", PromedioInicial, <<>>)

encontrarGrupoMayorPatrimonioPorReferencia(ps) ==
    GrupoMayorDesde(ps, "patrimonio", 1, "", PromedioInicial, <<>>)

encontrarGrupoMayorLongevidadPorValor(ps) ==
    GrupoMayorDesde(ps, "edad", 1, "", PromedioInicial, <<>>)

encontrarGrupoMayorLongevidadPorReferencia(ps) ==
    GrupoMayorDesde(ps, "edad", 1, "", PromedioInicial, <<>>)

----------------------------------------------------------------------------
(* Verification of one person *)

\* the handler of the failed classification answers true
verificarGrupoFalloDaCierto(persona) ==
    LET grupoCalculado == calcularGrupoCorrectoPorCedula(persona.id)
    IN  IF grupoCalculado.tipo = "ok"
        THEN grupoCalculado.valor = persona.grupoDeclaracion
        ELSE TRUE

verificarGrupoPorValor(persona) ==
    LET grupoCalculado == calcularGrupoCorrectoPorCedula(persona.id)
    IN  IF grupoCalculado.tipo = "ok"
        THEN grupoCalculado.valor = persona.grupoDeclaracion
        ELSE FALSE

verificarGrupoPorReferencia(persona) ==
    LET grupoCalculado == calcularGrupoCorrectoPorCedula(persona.id)
    IN  IF grupoCalculado.tipo = "ok"
        THEN grupoCalculado.valor = persona.grupoDeclaracion
        ELSE FALSE

----------------------------------------------------------------------------
(* Verification of a whole collection *)

\* what the function prints at the end: the size, the two counters and the
\* percentage correctos * 100.0 / size, which is 0.0 / 0 = NaN on the empty
\* collection; resultados is the local vector of the answers
Resumen(ps, resultados, correctos, incorrectos) ==
    [tipo |-> "resumen", total |-> Len(ps), resultados |-> resultados,
     correctos |-> correctos, incorrectos |-> incorrectos,
     porcentaje |-> IF Len(ps) = 0 THEN "nan"
                    ELSE [num |-> correctos * 100, den |-> Len(ps)]]

\* the classification is not guarded: the first id it fails on ends the loop
RECURSIVE MasivoSeDetieneDesde(_, _, _, _, _)
MasivoSeDetieneDesde(ps, i, resultados, correctos, incorrectos) ==
    IF i > Len(ps) \/ calcularGrupoCorrectoPorCedula(ps[i].id).tipo # "ok"
    THEN Resumen(ps, resultados, correctos, incorrectos)
    ELSE LET resultado == verificarGrupoPorValor(ps[i])
         IN  MasivoSeDetieneDesde(ps, i + 1, Append(resultados, resultado),
                                  IF resultado THEN correctos + 1 ELSE correctos,
                                  IF resultado THEN incorrectos ELSE incorrectos + 1)

verificarGruposMasivoSeDetiene(ps) == MasivoSeDetieneDesde(ps, 1, <<>>, 0, 0)

\* the loop over personas from its i-th element on
RECURSIVE MasivoPorValorDesde(_, _, _, _, _)
MasivoPorValorDesde(ps, i, resultados, correctos, incorrectos) ==
    IF i > Len(ps) THEN Resumen(ps, resultados, correctos, incorrectos)
    ELSE LET resultado == verificarGrupoPorValor(ps[i])
         IN  MasivoPorValorDesde(ps, i + 1, Append(resultados, resultado),
                                 IF resultado THEN correctos + 1 ELSE correctos,
                                 IF resultado THEN incorrectos ELSE incorrectos + 1)

verificarGruposMasivoPorValor(ps) == MasivoPorValorDesde(ps, 1, <<>>, 0, 0)

RECURSIVE MasivoPorReferenciaDesde(_, _, _, _, _)
MasivoPorReferenciaDesde(ps, i, resultados, correctos, incorrectos) ==
    IF i > Len(ps) THEN Resumen(ps, resultados, correctos, incorrectos)
    ELSE LET resultado == verificarGrupoPorReferencia(ps[i])
         IN  MasivoPorReferenciaDesde(ps, i + 1, Append(resultados, resultado),
                                      IF resultado THEN correctos + 1 ELSE correctos,
                                      IF resultado THEN incorrectos ELSE incorrectos + 1)

verificarGruposMasivoPorReferencia(ps) == MasivoPorReferenciaDesde(ps, 1, <<>>, 0, 0)

----------------------------------------------------------------------------
(* A caller of the generator: it holds one vector and replaces it by a      *)
(* newly generated collection, any number of times                          *)

\* the threads of a caller that uses generarID from two threads
Hilos == {"h1", "h2"}

\* no thread is inside generarID; leido is the value of contador a thread
\* has loaded, solapadas (history) the values loaded by a call that ran
\* while another call was between its load and its store
HilosInicial ==
    [pc |-> [t \in Hilos |-> "libre"], leido |-> [t \in Hilos |-> 0], solapadas |-> {}]

\* main() before its first iteration: the process is in the menu loop and
\* std::unique_ptr<std::vector<Persona>> personas is nullptr
MenuInicial == [proceso |-> "menu", hay |-> FALSE]

NoRet == [op |-> "ninguna"]

Init ==
    /\ modulo \in Modulos
    /\ contador = ContadorInicial
    /\ personas = <<>>
    /\ emitidos = <<>>
    /\ cedula = <<>>
    /\ hilos = HilosInicial
    /\ menu = MenuInicial
    /\ ret = NoRet

IdsDe(ps) == [i \in 1..Len(ps) |-> ps[i].id]

GenerarColeccion ==
    \E n \in 1..MaxN :
        /\ contador + n <= ContadorInicial + MaxIssued
        /\ \E ss \in [1..n -> Sorteos] :
              \E r \in {generarColeccion(modulo, n, contador, ss)} :
                  /\ contador' = r.contador
                  /\ emitidos' = emitidos \o IdsDe(r.personas)
                  /\ personas' = IF r.tipo = "ok" THEN r.personas ELSE personas
                  /\ ret' = [op |-> "generarColeccion", n |-> n, tipo |-> r.tipo]
        /\ UNCHANGED <<modulo, cedula, hilos, menu>>

Next == GenerarColeccion

Spec == Init /\ [][Next]_vars

----------------------------------------------------------------------------
(* A caller that only calls generarPersona, long enough for the ids to run  *)
(* through every two-digit ending                                           *)

GenerarPersona ==
    /\ contador < ContadorInicial + MaxLargo
    /\ \E s \in Sorteos :
          \E r \in {generarPersona(modulo, contador, s)} :
              /\ contador' = r.contador
              /\ emitidos' = Append(emitidos, r.persona.id)
              /\ ret' = [op |-> "generarPersona", tipo |-> r.tipo, persona |-> r.persona]
    /\ UNCHANGED <<modulo, personas, cedula, hilos, menu>>

NextLargo == GenerarPersona

SpecLargo == Init /\ [][NextLargo]_vars

----------------------------------------------------------------------------
(* A caller of the query engine: the collection is any vector of persons    *)
(* (the fields of the struct are public), the selectors are run on it       *)

IdsEntrada == {to_string(ContadorInicial), to_string(ContadorInicial + 99)}
CiudadesEntrada == {ciudadesColombia[1], ciudadesColombia[Len(ciudadesColombia)]}
GruposEntrada == {"A", "C"}
EdadesEntrada == {AnioReferencia - (AnioBase + 49), AnioReferencia - AnioBase}
PatrimoniosEntrada == {0, PatrimonioMax}

PersonasEntrada ==
    {Persona(id, ciudad, generarFechaNacimiento(<<0, 0, AnioReferencia - edad - AnioBase>>),
             grupo, edad, patrimonio, 0) :
        id \in IdsEntrada, ciudad \in CiudadesEntrada, grupo \in GruposEntrada,
        edad \in EdadesEntrada, patrimonio \in PatrimoniosEntrada}

ColeccionesEntrada == UNION {[1..n -> PersonasEntrada] : n \in 0..MaxColeccion}

InitConsultas ==
    /\ modulo \in Modulos
    /\ contador = ContadorInicial
    /\ personas \in ColeccionesEntrada
    /\ emitidos = <<>>
    /\ cedula = <<>>
    /\ hilos = HilosInicial
    /\ menu = MenuInicial
    /\ ret = NoRet

BuscarMasLongevoPorValor ==
    /\ \E out \in buscarMasLongevoPorValor(personas) :
          ret' = [op |-> "buscarMasLongevoPorValor", out |-> out]
    /\ UNCHANGED <<modulo, contador, personas, emitidos, cedula, hilos, menu>>

BuscarMasLongevoPorReferencia ==
    /\ ret' = [op |-> "buscarMasLongevoPorReferencia",
               out |-> buscarMasLongevoPorReferencia(personas)]
    /\ UNCHANGED <<modulo, contador, personas, emitidos, cedula, hilos, menu>>

BuscarMasPatrimonioPorValor ==
    /\ \E out \in buscarMasPatrimonioPorValor(personas) :
          ret' = [op |-> "buscarMasPatrimonioPorValor", out |-> out]
    /\ UNCHANGED <<modulo, contador, personas, emitidos, cedula, hilos, menu>>

BuscarMasPatrimonioPorReferencia ==
    /\ ret' = [op |-> "buscarMasPatrimonioPorReferencia",
               out |-> buscarMasPatrimonioPorReferencia(personas)]
    /\ UNCHANGED <<modulo, contador, personas, emitidos, cedula, hilos, menu>>

NextConsultas ==
    \/ BuscarMasLongevoPorValor
    \/ BuscarMasLongevoPorReferencia
    \/ BuscarMasPatrimonioPorValor
    \/ BuscarMasPatrimonioPorReferencia

SpecConsultas == InitConsultas /\ [][NextConsultas]_vars

\* the persons the caller got from the generator and still holds
Generadas ==
    {personas[i] : i \in 1..Len(personas)}
        \cup (IF ret.op = "generarPersona" /\ ret.tipo = "ok" THEN {ret.persona} ELSE {})

\* the number an id of decimal digits denotes
IdNum(id) == ValorDigitos(id)

\* C4: every generated person passes verificarGrupoPorValor and
\* verificarGrupoPorReferencia (its group is the one its id is classified to),
\* in both modules and whatever the counter value.
C4_GeneradasVerifican ==
    /\ ret.op = "generarPersona" => ret.tipo = "ok"
    /\ \A p \in Generadas :
          /\ verificarGrupoPorValor(p)
          /\ verificarGrupoPorReferencia(p)
          /\ calcularGrupoCorrectoPorCedula(p.id) = Ok(p.grupoDeclaracion)

C4_Witness ==
    /\ modulo = "clases"
    /\ ret.op = "generarPersona"
    /\ ret.persona.id = to_string(ContadorInicial + 100)
    /\ ret.persona.grupoDeclaracion = "A"
    /\ \E i \in 1..Len(emitidos) : Substr(emitidos[i], 8) = <<"8", "0">>

\* C5: the ids returned by generarID are strictly increasing in the order of
\* issue (so no value is returned twice), the first one is 1000000000, and
\* replacing the collection does not reset the counter.
C5_IdsCrecientes ==
    /\ emitidos # <<>> => IdNum(emitidos[1]) = 1000000000
    /\ \A i, j \in 1..Len(emitidos) : i < j => IdNum(emitidos[i]) < IdNum(emitidos[j])
    /\ \A i \in 1..Len(emitidos) : emitidos[i] = to_string(IdNum(emitidos[i]))

C5_Witness ==
    /\ Len(emitidos) = 3
    /\ Len(personas) = 2
    /\ personas[1].id = emitidos[2]

\* C6: generarColeccion(n), n >= 1, returns exactly n persons whose ids are
\* pairwise distinct and increase with the index.
C6_ColeccionDeN ==
    ret.op = "generarColeccion" =>
        /\ ret.tipo = "ok"
        /\ Len(personas) = ret.n
        /\ \A i, j \in 1..Len(personas) :
              i < j => IdNum(personas[i].id) < IdNum(personas[j].id)
        /\ \A i, j \in 1..Len(personas) :
              i # j => personas[i].id # personas[j].id

C6_Witness ==
    /\ ret.op = "generarColeccion"
    /\ ret.n = 2
    /\ Len(personas) = 2
    /\ IdNum(personas[1].id) > ContadorInicial

\* floor(0.7 * x), exact on the integers
SieteDecimos(x) == 7 * (x \div 10) + (7 * (x % 10)) \div 10

\* C7: every generated person has 0 <= deudas <= 0.7 * patrimonio and
\* 0 <= patrimonio <= 2,000,000,000; with patrimonio = 0 the debt is 0.
C7_DeudaAcotada ==
    \A p \in Generadas :
        /\ 0 <= p.patrimonio /\ p.patrimonio <= 2000000000
        /\ 0 <= p.deudas /\ p.deudas <= SieteDecimos(p.patrimonio)
        /\ p.patrimonio = 0 => p.deudas = 0

C7_Witness ==
    /\ ret.op = "generarPersona"
    /\ ret.persona.patrimonio = 2000000000
    /\ ret.persona.deudas = 1400000000

\* the year written after the last '/' of a date
AnioDe(fecha) == ValorDigitos(Substr(fecha, FindLastOfMasUno(fecha, "/")))

SelectoresGlobales ==
    {"buscarMasLongevoPorValor", "buscarMasLongevoPorReferencia",
     "buscarMasPatrimonioPorValor", "buscarMasPatrimonioPorReferencia"}

\* the ways a call reports that it failed: an exception, or the null pointer
\* of the pointer-returning variants
TiposDeFallo == {"invalid_argument", "out_of_range", "runtime_error", "nullptr"}

\* C9: on an empty collection each of the four whole-collection selectors
\* fails with an error; none returns a Person.
C9_VaciaFalla ==
    (ret.op \in SelectoresGlobales /\ personas = <<>>) => ret.out.tipo \in TiposDeFallo

\* C10: buscarMasLongevoPorReferencia and buscarMasPatrimonioPorReferencia
\* return nullptr on an empty collection and otherwise a pointer to an
\* element of the collection.
C10_ReferenciaNulaOElemento ==
    ret.op \in {"buscarMasLongevoPorReferencia", "buscarMasPatrimonioPorReferencia"} =>
        /\ personas = <<>> => ret.out = NullPtr
        /\ personas # <<>> =>
              (ret.out.tipo = "puntero" /\ ret.out.idx \in 1..Len(personas))

C10_Witness ==
    /\ ret.op = "buscarMasLongevoPorReferencia"
    /\ Len(personas) = 2
    /\ ret.out = Puntero(2)

\* i is the lowest index at which keys has its largest value
EsPrimerMaximo(keys, i) ==
    /\ i \in 1..Len(keys)
    /\ \A j \in 1..Len(keys) : keys[j] <= keys[i]
    /\ \A j \in 1..(i - 1) : keys[j] < keys[i]

\* the keys the selector named op compares
ClavesDe(op, ps) ==
    IF op \in {"buscarMasLongevoPorValor", "buscarMasLongevoPorReferencia"}
    THEN Edades(ps) ELSE Patrimonios(ps)

\* C11: on a non-empty collection buscarMasLongevo* (buscarMasPatrimonio*)
\* returns an element whose edad (patrimonio) is at least every element's,
\* and of the elements that reach that largest value the one of lowest index;
\* the by-value variants return a copy of that element.
C11_PrimerMaximo ==
    (ret.op \in SelectoresGlobales /\ personas # <<>>) =>
        /\ ret.out.tipo \in {"persona", "puntero"}
        /\ EsPrimerMaximo(ClavesDe(ret.op, personas), ret.out.idx)
        /\ ret.out.tipo = "persona" => ret.out.persona = personas[ret.out.idx]

C11_Witness ==
    /\ ret.op = "buscarMasPatrimonioPorValor"
    /\ Len(personas) = 2
    /\ personas[1] # personas[2]
    /\ personas[1].patrimonio = personas[2].patrimonio
    /\ ret.out.tipo = "persona"
    /\ ret.out.idx = 1

----------------------------------------------------------------------------
(* The classification taken alone: the id string is the input *)

CedulaChars == DigitSet \cup {" ", "-", "+", "x"}

CedulaInputs == UNION {[1..n -> CedulaChars] : n \in 0..MaxCedulaLen}

InitCedula ==
    /\ modulo \in Modulos
    /\ contador = ContadorInicial
    /\ personas = <<>>
    /\ emitidos = <<>>
    /\ cedula \in CedulaInputs
    /\ hilos = HilosInicial
    /\ menu = MenuInicial
    /\ ret = NoRet

CalcularGrupo ==
    /\ ret = NoRet
    /\ ret' = [op |-> "calcularGrupoCorrectoPorCedula",
               out |-> calcularGrupoCorrectoPorCedula(cedula)]
    /\ UNCHANGED <<modulo, contador, personas, emitidos, cedula, hilos, menu>>

NextCedula == CalcularGrupo

SpecCedula == InitCedula /\ [][NextCedula]_vars

Clasificada == ret.op = "calcularGrupoCorrectoPorCedula"

UltimosDos == Substr(cedula, Len(cedula) - 2)

TerminaEnDosDigitos ==
    Len(cedula) >= 2 /\ UltimosDos[1] \in DigitSet /\ UltimosDos[2] \in DigitSet

\* the group the rule of the documentation gives to a two-digit value
GrupoDeValor(v) == IF v <= 39 THEN "A" ELSE IF v <= 79 THEN "B" ELSE "C"

\* C1: an id ending in two decimal digits of value v is classified A for
\* 0..39, B for 40..79 and C for 80..99, whatever comes before them.
C1_ClasificaPorUltimosDosDigitos ==
    (Clasificada /\ TerminaEnDosDigitos) =>
        ret.out = Ok(GrupoDeValor(10 * DigitVal(UltimosDos[1]) + DigitVal(UltimosDos[2])))

C1_Witness ==
    /\ Clasificada
    /\ cedula = <<"x", "4", "0">>
    /\ ret.out = Ok("B")

\* C2: an id of length 0 or 1 fails with invalid-argument and yields no group.
C2_CedulaCortaFalla ==
    (Clasificada /\ Len(cedula) < 2) => ret.out.tipo = "invalid_argument"

C2_Witness ==
    /\ Clasificada
    /\ cedula = <<"7">>
    /\ ret.out.tipo = "invalid_argument"

\* the last two characters are text std::stoi reads a number from
UltimosDosLegibles ==
    \/ UltimosDos[1] \in DigitSet
    \/ UltimosDos[1] \in {" ", "+", "-"} /\ UltimosDos[2] \in DigitSet

----------------------------------------------------------------------------
(* A caller of the selectors that take a search key (an id, a city, a        *)
(* group): the keys asked for occur in the collection or do not. In the     *)
(* input persons the older one is the poorer one.                           *)

PersonasBusqueda ==
    {p \in PersonasEntrada :
        (p.edad = AnioReferencia - AnioBase) <=> (p.patrimonio = 0)}

ColeccionesBusqueda == UNION {[1..n -> PersonasBusqueda] : n \in 0..MaxColeccion}

InitBusquedas ==
    /\ modulo \in Modulos
    /\ contador = ContadorInicial
    /\ personas \in ColeccionesBusqueda
    /\ emitidos = <<>>
    /\ cedula = <<>>
    /\ hilos = HilosInicial
    /\ menu = MenuInicial
    /\ ret = NoRet

IdsPedidos == IdsEntrada \cup {to_string(ContadorInicial + 1)}
CiudadesPedidas == CiudadesEntrada \cup {ciudadesColombia[2]}
GruposPedidos == GruposEntrada \cup {"D"}

Consulta(op, arg, out) ==
    /\ ret' = [op |-> op, arg |-> arg, out |-> out]
    /\ UNCHANGED <<modulo, contador, personas, emitidos, cedula, hilos, menu>>

BuscarPorID ==
    \E id \in IdsPedidos : Consulta("buscarPorID", id, buscarPorID(personas, id))

\* the vector is taken by reference and the persons of other cities are
\* erased from it instead of being left out of a copy
BuscarMasLongevoEnCiudadFiltraEnSitio ==
    \E ciudad \in CiudadesPedidas :
        /\ ret' = [op |-> "buscarMasLongevoPorValorEnCiudad", arg |-> ciudad,
                   out |-> buscarMasLongevoPorValorEnCiudad(personas, ciudad)]
        /\ personas' = SelectSeq(personas, LAMBDA p : p.ciudadNacimiento = ciudad)
        /\ UNCHANGED <<modulo, contador, emitidos, cedula, hilos, menu>>

BuscarMasLongevoPorValorEnCiudad ==
    \E ciudad \in CiudadesPedidas :
        Consulta("buscarMasLongevoPorValorEnCiudad", ciudad,
                 buscarMasLongevoPorValorEnCiudad(personas, ciudad))

BuscarMasLongevoPorReferenciaEnCiudad ==
    \E ciudad \in CiudadesPedidas :
        Consulta("buscarMasLongevoPorReferenciaEnCiudad", ciudad,
                 buscarMasLongevoPorReferenciaEnCiudad(personas, ciudad))

BuscarMasPatrimonioPorValorEnCiudad ==
    \E ciudad \in CiudadesPedidas :
        Consulta("buscarMasPatrimonioPorValorEnCiudad", ciudad,
                 buscarMasPatrimonioPorValorEnCiudad(personas, ciudad))

BuscarMasPatrimonioPorReferenciaEnCiudad ==
    \E ciudad \in CiudadesPedidas :
        Consulta("buscarMasPatrimonioPorReferenciaEnCiudad", ciudad,
                 buscarMasPatrimonioPorReferenciaEnCiudad(personas, ciudad))

BuscarMasPatrimonioPorValorEnGrupo ==
    \E grupo \in GruposPedidos :
        Consulta("buscarMasPatrimonioPorValorEnGrupo", grupo,
                 buscarMasPatrimonioPorValorEnGrupo(personas, grupo))

BuscarMasPatrimonioPorReferenciaEnGrupo ==
    \E grupo \in GruposPedidos :
        Consulta("buscarMasPatrimonioPorReferenciaEnGrupo", grupo,
                 buscarMasPatrimonioPorReferenciaEnGrupo(personas, grupo))

ListarPersonasPorValorEnGrupo ==
    \E grupo \in GruposPedidos :
        Consulta("listarPersonasPorValorEnGrupo", grupo,
                 listarPersonasPorValorEnGrupo(personas, grupo))

ListarPersonasPorReferenciaEnGrupo ==
    \E grupo \in GruposPedidos :
        Consulta("listarPersonasPorReferenciaEnGrupo", grupo,
                 listarPersonasPorReferenciaEnGrupo(personas, grupo))

NextBusquedas ==
    \/ BuscarPorID
    \/ BuscarMasLongevoPorValorEnCiudad
    \/ BuscarMasLongevoPorReferenciaEnCiudad
    \/ BuscarMasPatrimonioPorValorEnCiudad
    \/ BuscarMasPatrimonioPorReferenciaEnCiudad
    \/ BuscarMasPatrimonioPorValorEnGrupo
    \/ BuscarMasPatrimonioPorReferenciaEnGrupo
    \/ ListarPersonasPorValorEnGrupo
    \/ ListarPersonasPorReferenciaEnGrupo

SpecBusquedas == InitBusquedas /\ [][NextBusquedas]_vars

SelectoresEnCiudad ==
    {"buscarMasLongevoPorValorEnCiudad", "buscarMasLongevoPorReferenciaEnCiudad",
     "buscarMasPatrimonioPorValorEnCiudad", "buscarMasPatrimonioPorReferenciaEnCiudad"}

SelectoresEnGrupo ==
    {"buscarMasPatrimonioPorValorEnGrupo", "buscarMasPatrimonioPorReferenciaEnGrupo"}

SelectoresFiltrados == SelectoresEnCiudad \cup SelectoresEnGrupo

\* the positions of the elements the selector named op was asked about
Coincidentes(op, ps, arg) ==
    IF op \in SelectoresEnCiudad
    THEN {i \in 1..Len(ps) : ps[i].ciudadNacimiento = arg}
    ELSE {i \in 1..Len(ps) : ps[i].grupoDeclaracion = arg}

\* the field the selector named op maximises
ClaveDe(op, p) ==
    IF op \in {"buscarMasLongevoPorValorEnCiudad", "buscarMasLongevoPorReferenciaEnCiudad"}
    THEN p.edad ELSE p.patrimonio

\* C12: when it returns, a selector restricted to a city or a group returns
\* an element of the collection that has the requested city (group), whose
\* key is at least that of every other matching element and which is the
\* lowest-indexed matching element with that key; an element that does not
\* match never decides the result, however large its key.
C12_PrimerMaximoEntreCoincidentes ==
    (ret.op \in SelectoresFiltrados /\ ret.out.tipo # "runtime_error") =>
        LET S == Coincidentes(ret.op, personas, ret.arg)
        IN  /\ ret.out.tipo \in {"persona", "puntero"}
            /\ ret.out.idx \in S
            /\ \A j \in S :
                  ClaveDe(ret.op, personas[j]) <= ClaveDe(ret.op, personas[ret.out.idx])
            /\ \A j \in S :
                  j < ret.out.idx =>
                      ClaveDe(ret.op, personas[j]) < ClaveDe(ret.op, personas[ret.out.idx])
            /\ ret.out.tipo = "persona" => ret.out.persona = personas[ret.out.idx]

C12_Witness ==
    /\ ret.op = "buscarMasLongevoPorValorEnCiudad"
    /\ Len(personas) = 2
    /\ personas[1].ciudadNacimiento # ret.arg
    /\ personas[1].edad > personas[2].edad
    /\ ret.out.tipo = "persona"
    /\ ret.out.idx = 2

\* what the whole-collection selectors can answer on the empty collection
SalidasDeVaciaGlobal ==
    buscarMasLongevoPorValor(<<>>) \cup buscarMasPatrimonioPorValor(<<>>)
        \cup {buscarMasLongevoPorReferencia(<<>>), buscarMasPatrimonioPorReferencia(<<>>)}

\* C13: a selector restricted to a city or a group fails with the "no
\* records" error (std::runtime_error) exactly when no element matches, the
\* empty collection included, and that failure is none of the outcomes the
\* whole-collection selectors have on the empty collection.
C13_SinCoincidenciasLanza ==
    ret.op \in SelectoresFiltrados =>
        /\ ret.out = Lanza("runtime_error") <=> Coincidentes(ret.op, personas, ret.arg) = {}
        /\ ret.out.tipo \in {"runtime_error", "persona", "puntero"}
        /\ \A o \in SalidasDeVaciaGlobal : o.tipo # "runtime_error"

C13_Witness ==
    /\ ret.op = "buscarMasPatrimonioPorReferenciaEnGrupo"
    /\ Len(personas) = 2
    /\ \A i \in 1..2 : personas[i].grupoDeclaracion # ret.arg
    /\ ret.arg \in GruposEntrada
    /\ ret.out = Lanza("runtime_error")

\* the members of the set S of positions, in increasing order
EnOrden(S) ==
    CHOOSE f \in [1..Cardinality(S) -> S] :
        \A a, b \in 1..Cardinality(S) : a < b => f[a] < f[b]

MiembrosDe(ps, grupo) == {i \in 1..Len(ps) : ps[i].grupoDeclaracion = grupo}

\* C14: listarPersonasPorValorEnGrupo and listarPersonasPorReferenciaEnGrupo
\* return the elements whose grupoDeclaracion is the requested group, each
\* once and in the order of the collection, so as many as there are
\* members; for a group without members (a label other than A, B, C
\* included) they return the empty vector and raise no error.
C14_ListaDelGrupo ==
    LET S == MiembrosDe(personas, ret.arg)
    IN  /\ ret.op = "listarPersonasPorReferenciaEnGrupo" =>
              /\ ret.out.tipo = "punteros"
              /\ ret.out.elems = EnOrden(S)
        /\ ret.op = "listarPersonasPorValorEnGrupo" =>
              /\ ret.out.tipo = "copias"
              /\ Len(ret.out.elems) = Cardinality(S)
              /\ \A k \in 1..Cardinality(S) : ret.out.elems[k] = personas[EnOrden(S)[k]]

C14_Witness ==
    /\ ret.op = "listarPersonasPorReferenciaEnGrupo"
    /\ Len(personas) = 2
    /\ personas[1] # personas[2]
    /\ personas[1].grupoDeclaracion = ret.arg
    /\ personas[2].grupoDeclaracion = ret.arg
    /\ ret.out.elems = <<1, 2>>

\* C15: buscarPorID returns a pointer to the lowest-indexed element with the
\* requested id, and the null pointer, not an error, exactly when no element
\* has it, the empty collection included.
C15_PrimeroConId ==
    ret.op = "buscarPorID" =>
        LET S == {i \in 1..Len(personas) : personas[i].id = ret.arg}
        IN  /\ S = {} <=> ret.out = NullPtr
            /\ S # {} =>
                  /\ ret.out.tipo = "puntero"
                  /\ ret.out.idx \in S
                  /\ \A j \in S : ret.out.idx <= j

C15_Witness ==
    /\ ret.op = "buscarPorID"
    /\ Len(personas) = 2
    /\ personas[1].id = ret.arg
    /\ personas[2].id = ret.arg
    /\ personas[1] # personas[2]
    /\ ret.out = Puntero(1)

----------------------------------------------------------------------------
(* A caller of the group statistics: the persons differ in their group and  *)
(* in their metrics, the collection has up to MaxMiembros of them           *)

GruposDeclarados == {grupos[g] : g \in 1..Len(grupos)}

MetricasEntrada ==
    {[patrimonio |-> 0, edad |-> AnioReferencia - AnioBase],
     [patrimonio |-> 100, edad |-> AnioReferencia - (AnioBase + 49)],
     [patrimonio |-> 300, edad |-> AnioReferencia - (AnioBase + 25)]}

PersonasEstadistica ==
    {Persona(to_string(ContadorInicial), ciudadesColombia[1],
             generarFechaNacimiento(<<0, 0, AnioReferencia - m.edad - AnioBase>>),
             grupo, m.edad, m.patrimonio, 0) :
        grupo \in GruposDeclarados, m \in MetricasEntrada}

ColeccionesEstadistica == UNION {[1..n -> PersonasEstadistica] : n \in 0..MaxMiembros}

InitEstadisticas ==
    /\ modulo \in Modulos
    /\ contador = ContadorInicial
    /\ personas \in ColeccionesEstadistica
    /\ emitidos = <<>>
    /\ cedula = <<>>
    /\ hilos = HilosInicial
    /\ menu = MenuInicial
    /\ ret = NoRet

Estadistica(op, out) ==
    /\ ret' = [op |-> op, out |-> out]
    /\ UNCHANGED <<modulo, contador, personas, emitidos, cedula, hilos, menu>>

EncontrarGrupoMayorPatrimonioPorValor ==
    Estadistica("encontrarGrupoMayorPatrimonioPorValor",
                encontrarGrupoMayorPatrimonioPorValor(personas))

EncontrarGrupoMayorPatrimonioPorReferencia ==
    Estadistica("encontrarGrupoMayorPatrimonioPorReferencia",
                encontrarGrupoMayorPatrimonioPorReferencia(personas))

EncontrarGrupoMayorLongevidadPorValor ==
    Estadistica("encontrarGrupoMayorLongevidadPorValor",
                encontrarGrupoMayorLongevidadPorValor(personas))

EncontrarGrupoMayorLongevidadPorReferencia ==
    Estadistica("encontrarGrupoMayorLongevidadPorReferencia",
                encontrarGrupoMayorLongevidadPorReferencia(personas))

NextEstadisticas ==
    \/ EncontrarGrupoMayorPatrimonioPorValor
    \/ EncontrarGrupoMayorPatrimonioPorReferencia
    \/ EncontrarGrupoMayorLongevidadPorValor
    \/ EncontrarGrupoMayorLongevidadPorReferencia

SpecEstadisticas == InitEstadisticas /\ [][NextEstadisticas]_vars

EstadisticasDePatrimonio ==
    {"encontrarGrupoMayorPatrimonioPorValor", "encontrarGrupoMayorPatrimonioPorReferencia"}

EstadisticasDeEdad ==
    {"encontrarGrupoMayorLongevidadPorValor", "encontrarGrupoMayorLongevidadPorReferencia"}

EstadisticasDeGrupo == EstadisticasDePatrimonio \cup EstadisticasDeEdad

\* the metric the statistic named op averages
MetricaDe(op, p) == IF op \in EstadisticasDePatrimonio THEN p.patrimonio ELSE p.edad

\* the sum of the metric over the members of grupo among ps[i..]
RECURSIVE SumaDelGrupo(_, _, _, _)
SumaDelGrupo(op, ps, grupo, i) ==
    IF i > Len(ps) THEN 0
    ELSE (IF ps[i].grupoDeclaracion = grupo THEN MetricaDe(op, ps[i]) ELSE 0)
            + SumaDelGrupo(op, ps, grupo, i + 1)

\* mean of g <= mean of h, for groups with members
MediaMenorOIgual(op, ps, g, h) ==
    SumaDelGrupo(op, ps, g, 1) * Cardinality(MiembrosDe(ps, h))
        <= SumaDelGrupo(op, ps, h, 1) * Cardinality(MiembrosDe(ps, g))

GruposConMiembros(ps) == {g \in GruposDeclarados : MiembrosDe(ps, g) # {}}

\* the groups with members whose mean no group with members exceeds
GruposDeMediaMaxima(op, ps) ==
    {g \in GruposConMiembros(ps) :
        \A h \in GruposConMiembros(ps) : MediaMenorOIgual(op, ps, h, g)}

\* the member of the non-empty set G of groups that comes first in A, B, C
PrimeroEnOrden(G) ==
    grupos[CHOOSE k \in 1..Len(grupos) :
              grupos[k] \in G /\ \A j \in 1..(k - 1) : grupos[j] \notin G]

\* C16: when two or more groups share the largest average, encontrarGrupoMayor*
\* returns the one of them that comes first in the order A, B, C.
C16_EmpateGanaElPrimero ==
    ret.op \in EstadisticasDeGrupo =>
        LET G == GruposDeMediaMaxima(ret.op, personas)
        IN  Cardinality(G) >= 2 => ret.out = PrimeroEnOrden(G)

\* C17: encontrarGrupoMayor* averages over exactly the members of each group:
\* it returns the empty label when no group has a member, and otherwise a
\* group that has members and whose mean is at least the mean of every other
\* group with members.
C17_GrupoDeMediaMaxima ==
    ret.op \in EstadisticasDeGrupo =>
        IF GruposConMiembros(personas) = {}
        THEN ret.out = ""
        ELSE ret.out \in GruposDeMediaMaxima(ret.op, personas)

----------------------------------------------------------------------------
(* A caller of the verification: the ids of the persons are well formed or  *)
(* not (one character; a letter among the last two characters)              *)

IdsMalFormados == {<<"7">>, <<"1", "x">>}

PersonasVerificacion ==
    {Persona(id, ciudadesColombia[1], generarFechaNacimiento(<<0, 0, 0>>),
             grupo, AnioReferencia - AnioBase, 0, 0) :
        id \in IdsEntrada \cup IdsMalFormados, grupo \in GruposEntrada}

ColeccionesVerificacion == UNION {[1..n -> PersonasVerificacion] : n \in 0..MaxColeccion}

InitVerificacion ==
    /\ modulo \in Modulos
    /\ contador = ContadorInicial
    /\ personas \in ColeccionesVerificacion
    /\ emitidos = <<>>
    /\ cedula = <<>>
    /\ hilos = HilosInicial
    /\ menu = MenuInicial
    /\ ret = NoRet

Booleano(b) == [tipo |-> "bool", valor |-> b]

VerificarGrupoPorValor ==
    \E i \in 1..Len(personas) :
        Consulta("verificarGrupoPorValor", i, Booleano(verificarGrupoPorValor(personas[i])))

VerificarGrupoPorReferencia ==
    \E i \in 1..Len(personas) :
        Consulta("verificarGrupoPorReferencia", i,
                 Booleano(verificarGrupoPorReferencia(personas[i])))

VerificarGruposMasivoPorValor ==
    Estadistica("verificarGruposMasivoPorValor", verificarGruposMasivoPorValor(personas))

VerificarGruposMasivoPorReferencia ==
    Estadistica("verificarGruposMasivoPorReferencia",
                verificarGruposMasivoPorReferencia(personas))

NextVerificacion ==
    \/ VerificarGrupoPorValor
    \/ VerificarGrupoPorReferencia
    \/ VerificarGruposMasivoPorValor
    \/ VerificarGruposMasivoPorReferencia

SpecVerificacion == InitVerificacion /\ [][NextVerificacion]_vars

\* std::stoi reads a number from the last two characters of id
TerminaEnNumero(id) ==
    /\ Len(id) >= 2
    /\ \/ id[Len(id) - 1] \in DigitSet
       \/ id[Len(id) - 1] \in {" ", "+", "-"} /\ id[Len(id)] \in DigitSet

\* the classification of p.id succeeds and is p's declared group
BienClasificada(p) ==
    /\ TerminaEnNumero(p.id)
    /\ calcularGrupoCorrectoPorCedula(p.id) = Ok(p.grupoDeclaracion)

\* C18: verificarGrupoPorValor and verificarGrupoPorReferencia answer true
\* exactly when the classification of the person's id succeeds and gives the
\* person's grupoDeclaracion; when it fails (an id of fewer than 2
\* characters, last two characters that are no number) the answer is false
\* and the caller sees no error.
C18_VerificaSiClasifica ==
    ret.op \in {"verificarGrupoPorValor", "verificarGrupoPorReferencia"} =>
        /\ ret.out.tipo = "bool"
        /\ ret.out.valor <=> BienClasificada(personas[ret.arg])
        /\ calcularGrupoCorrectoPorCedula(personas[ret.arg].id).tipo # "ok"
              => ret.out.valor = FALSE

C18_Witness ==
    /\ ret.op = "verificarGrupoPorReferencia"
    /\ personas[ret.arg].id \in IdsMalFormados
    /\ ret.out = Booleano(FALSE)

\* C19: verificarGruposMasivoPorValor and verificarGruposMasivoPorReferencia
\* examine every element once, malformed ids included: the answers are one
\* per element, correctos + incorrectos is the size of the collection,
\* correctos is the number of elements the single verification accepts, and
\* an element with a malformed id is counted as incorrect while the elements
\* after it are still examined.
C19_CuentaTodos ==
    ret.op \in {"verificarGruposMasivoPorValor", "verificarGruposMasivoPorReferencia"} =>
        /\ ret.out.tipo = "resumen"
        /\ ret.out.total = Len(personas)
        /\ Len(ret.out.resultados) = Len(personas)
        /\ \A i \in 1..Len(personas) :
              ret.out.resultados[i] <=> BienClasificada(personas[i])
        /\ ret.out.correctos + ret.out.incorrectos = Len(personas)
        /\ ret.out.correctos =
              Cardinality({i \in 1..Len(personas) : BienClasificada(personas[i])})

C19_Witness ==
    /\ ret.op = "verificarGruposMasivoPorValor"
    /\ Len(personas) = 2
    /\ personas[1].id \in IdsMalFormados
    /\ BienClasificada(personas[2])
    /\ ret.out.correctos = 1
    /\ ret.out.incorrectos = 1

----------------------------------------------------------------------------
(* A caller of the whole query engine: every selector, listing,             *)
(* verification and statistic, in any order, on one collection              *)

NextMotor ==
    \/ NextConsultas
    \/ NextBusquedas
    \/ NextVerificacion
    \/ NextEstadisticas

SpecMotor == InitVerificacion /\ [][NextMotor]_vars

\* C20: no operation of the query engine, the verification or the statistics
\* changes the caller's collection: after the call it has the same length,
\* the same order and the same fields in every element as before, whether
\* the call returned or failed.
C20_ColeccionIntacta == [][personas' = personas]_vars

C20_Witness ==
    /\ ret.op = "buscarMasLongevoPorValorEnCiudad"
    /\ ret.out = Lanza("runtime_error")
    /\ Len(personas) = 2
    /\ personas[1] # personas[2]

\* C28: encontrarGrupoMayor* returns the empty label only when no person of
\* the collection is in group A, B or C; as soon as one is, the result is one
\* of A, B, C, also when every metric is 0.
C28_EtiquetaVaciaSoloSinMiembros ==
    ret.op \in EstadisticasDeGrupo =>
        /\ ret.out = "" => GruposConMiembros(personas) = {}
        /\ GruposConMiembros(personas) # {} => ret.out \in GruposDeclarados

\* the outcome of the by-reference counterpart of the by-value operation op
\* on the collection ps with the argument arg
GemeloPorReferencia(op, ps, arg) ==
    CASE op = "buscarMasLongevoPorValor" -> buscarMasLongevoPorReferencia(ps)
      [] op = "buscarMasPatrimonioPorValor" -> buscarMasPatrimonioPorReferencia(ps)
      [] op = "buscarMasLongevoPorValorEnCiudad" ->
            buscarMasLongevoPorReferenciaEnCiudad(ps, arg)
      [] op = "buscarMasPatrimonioPorValorEnCiudad" ->
            buscarMasPatrimonioPorReferenciaEnCiudad(ps, arg)
      [] op = "buscarMasPatrimonioPorValorEnGrupo" ->
            buscarMasPatrimonioPorReferenciaEnGrupo(ps, arg)
      [] op = "listarPersonasPorValorEnGrupo" ->
            listarPersonasPorReferenciaEnGrupo(ps, arg)
      [] op = "verificarGrupoPorValor" -> Booleano(verificarGrupoPorReferencia(ps[arg]))
      [] op = "verificarGruposMasivoPorValor" -> verificarGruposMasivoPorReferencia(ps)
      [] op = "encontrarGrupoMayorPatrimonioPorValor" ->
            encontrarGrupoMayorPatrimonioPorReferencia(ps)
      [] op = "encontrarGrupoMayorLongevidadPorValor" ->
            encontrarGrupoMayorLongevidadPorReferencia(ps)

OperacionesPorValor ==
    {"buscarMasLongevoPorValor", "buscarMasPatrimonioPorValor",
     "buscarMasLongevoPorValorEnCiudad", "buscarMasPatrimonioPorValorEnCiudad",
     "buscarMasPatrimonioPorValorEnGrupo", "listarPersonasPorValorEnGrupo",
     "verificarGrupoPorValor", "verificarGruposMasivoPorValor",
     "encontrarGrupoMayorPatrimonioPorValor", "encontrarGrupoMayorLongevidadPorValor"}

\* the by-value outcome v and the by-reference outcome r are the same
\* outcome: the same position of ps, the same sequence of elements of ps,
\* the same failure, the same boolean, summary or label
MismoResultado(op, ps, v, r) ==
    IF op \in EstadisticasDeGrupo THEN v = r
    ELSE CASE v.tipo = "persona" -> r.tipo = "puntero" /\ r.idx = v.idx
           [] v.tipo = "copias" ->
                 /\ r.tipo = "punteros"
                 /\ Len(r.elems) = Len(v.elems)
                 /\ \A k \in 1..Len(v.elems) : ps[r.elems[k]] = v.elems[k]
           [] OTHER -> r.tipo = v.tipo /\ r = v

\* C26: every by-value operation gives the outcome of its by-reference
\* counterpart on the same collection and argument: the same selected
\* position, the same listed sequence, the same boolean, summary or label,
\* and a failure in the same cases.
C26_ValorIgualAReferencia ==
    ret.op \in OperacionesPorValor =>
        MismoResultado(ret.op, personas, ret.out,
                       GemeloPorReferencia(ret.op, personas,
                                           IF "arg" \in DOMAIN ret THEN ret.arg
                                           ELSE 0))

----------------------------------------------------------------------------
(* A caller that generates collections and looks up, in the collection it   *)
(* holds, the id of one of its elements                                     *)

BuscarGenerada ==
    \E i \in 1..Len(personas) :
        Consulta("buscarPorID", personas[i].id, buscarPorID(personas, personas[i].id))

NextIdaYVuelta ==
    \/ GenerarColeccion
    \/ BuscarGenerada

SpecIdaYVuelta == Init /\ [][NextIdaYVuelta]_vars

\* C29: in a collection returned by generarColeccion, buscarPorID with the id
\* of the element at index i returns that element, never another one and
\* never the null pointer, also when earlier collections were generated
\* before it in the same process.
C29_IdaYVuelta ==
    /\ ret.op = "buscarPorID" =>
          /\ ret.out.tipo = "puntero"
          /\ personas[ret.out.idx].id = ret.arg
          /\ \A i \in 1..Len(personas) : personas[i].id = ret.arg => ret.out.idx = i
    /\ \A i \in 1..Len(personas) : buscarPorID(personas, personas[i].id) = Puntero(i)

C29_Witness ==
    /\ ret.op = "buscarPorID"
    /\ Len(personas) = 2
    /\ Len(emitidos) = 3
    /\ ret.arg = emitidos[3]
    /\ ret.out = Puntero(2)

\* the issued ids emitidos[a..a+99] that the classification puts in group g
EnVentana(a, g) ==
    {i \in a..(a + 99) : calcularGrupoCorrectoPorCedula(emitidos[i]) = Ok(g)}

\* C27: the k-th person generated in a process has the group decided by
\* (k - 1) mod 100 (0..39 A, 40..79 B, 80..99 C), and of any 100 persons
\* generated one after the other 40 are in A, 40 in B and 20 in C.
C27_RepartoPorCentena ==
    /\ ret.op = "generarPersona" =>
          /\ ret.tipo = "ok"
          /\ ret.persona.id = emitidos[Len(emitidos)]
          /\ ret.persona.id = to_string(ContadorInicial + Len(emitidos) - 1)
          /\ ret.persona.grupoDeclaracion = GrupoDeValor((Len(emitidos) - 1) % 100)
          /\ calcularGrupoCorrectoPorCedula(ret.persona.id) = Ok(ret.persona.grupoDeclaracion)
    /\ \A a \in 1..(Len(emitidos) - 99) :
          /\ Cardinality(EnVentana(a, "A")) = 40
          /\ Cardinality(EnVentana(a, "B")) = 40
          /\ Cardinality(EnVentana(a, "C")) = 20

C27_Witness ==
    /\ ret.op = "generarPersona"
    /\ Len(emitidos) = 101
    /\ ret.persona.grupoDeclaracion = "A"
    /\ Cardinality(EnVentana(2, "A")) = 40

----------------------------------------------------------------------------
(* generarID called from two threads without a lock. contador++ on the      *)
(* static long is a load and a store; the outcomes of the unsynchronised    *)
(* accesses are those of the interleavings of these two steps.              *)

\* thread t enters generarID and loads contador
CargarContador(t) ==
    /\ hilos.pc[t] = "libre"
    /\ Len(emitidos) + Cardinality({u \in Hilos : hilos.pc[u] = "cargado"}) < MaxIssued
    /\ hilos' = [pc |-> [hilos.pc EXCEPT ![t] = "cargado"],
                 leido |-> [hilos.leido EXCEPT ![t] = contador],
                 solapadas |->
                    IF \E u \in Hilos : hilos.pc[u] = "cargado"
                    THEN hilos.solapadas
                            \cup {contador} \cup {hilos.leido[u] : u \in {v \in Hilos : hilos.pc[v] = "cargado"}}
                    ELSE hilos.solapadas]
    /\ UNCHANGED <<modulo, contador, personas, emitidos, cedula, menu, ret>>

\* thread t stores the incremented value and returns the string of the
\* value it loaded
GuardarYDevolver(t) ==
    /\ hilos.pc[t] = "cargado"
    /\ \E r \in {generarID(hilos.leido[t])} :
          /\ contador' = r.contador
          /\ emitidos' = Append(emitidos, r.id)
          /\ ret' = [op |-> "generarID", hilo |-> t, id |-> r.id]
    /\ hilos' = [hilos EXCEPT !.pc[t] = "libre"]
    /\ UNCHANGED <<modulo, personas, cedula, menu>>

NextHilos == \E t \in Hilos : CargarContador(t) \/ GuardarYDevolver(t)

SpecHilos == Init /\ [][NextHilos]_vars

\* C21: without mutual exclusion two calls of generarID can return the same
\* id; ids are returned twice only by calls that overlapped, so calls that
\* are serialized return pairwise different ids.
C21_RepetidosSoloSiSolapan ==
    \A i, j \in 1..Len(emitidos) :
        (i < j /\ emitidos[i] = emitidos[j]) => IdNum(emitidos[i]) \in hilos.solapadas

C21_Witness ==
    /\ Len(emitidos) = 2
    /\ emitidos[1] = emitidos[2]
    /\ ret.op = "generarID"
    /\ ret.hilo = "h2"
    /\ \A t \in Hilos : hilos.pc[t] = "libre"

----------------------------------------------------------------------------
(* main(): the menu loop. One action is one iteration of the do-while: the  *)
(* option is read as a string, converted by std::stoi and dispatched by the *)
(* switch. The tokens typed are well-formed for the type they are read      *)
(* into; an exception that no handler of main catches ends the process      *)
(* through std::terminate.                                                  *)

\* while (opcion != 18)
OpcionSalir == 18

\* what is typed at "Seleccione una opcion": the numerals 0..19 and -1, a
\* word, and a numeral of 11 digits
EntradasMenu ==
    {to_string(k) : k \in (0 - 1)..(OpcionSalir + 1)}
        \cup {<<"x">>, <<"9">> \o to_string(ContadorInicial)}

\* the entries with what std::stoi makes of them
OpcionesLeidas == {[entrada |-> e, r |-> Stoi(e)] : e \in EntradasMenu}

\* the entries that select option k
Eligen(k) == {o.entrada : o \in {x \in OpcionesLeidas : x.r = Ok(k)}}

\* the draws of the persons generated from the menu: the city is drawn,
\* the other draws are fixed
SorteosMenu ==
    {s \in Sorteos : s.fecha = <<0, 0, 0>> /\ s.uPatrimonio = 0 /\ s.uDeudas = 0}

\* what is typed at "Ingrese el numero de personas a generar"
EntradasN == (0 - 1)..MaxN

\* what is typed as a city: the city of some persons, a listed city nobody
\* is born in, a word that is no listed city
CiudadesTecleadas == {ciudadesColombia[1], ciudadesColombia[2], "Paris"}

\* what is typed as a group
GruposTecleados == {"A", "B", "C", "D"}

\* what is typed as an id
IdsTecleados == {to_string(ContadorInicial), to_string(ContadorInicial + 1), <<"x">>}

ciudadValida(ciudad) == \E i \in 1..Len(ciudadesColombia) : ciudadesColombia[i] = ciudad

\* the test of the pointer is missing: only a held, empty vector counts
SinDatosSoloVacia == menu.hay /\ personas = <<>>

\* !personas || personas->empty()
SinDatos == ~menu.hay \/ personas = <<>>

\* the outcomes that no handler of main catches, or that are a crash
Fatales == {"invalid_argument", "out_of_range", "runtime_error", "crash"}

\* the record of one iteration: the entry, the option std::stoi read (if
\* it read one), the library function that was called (if one was), the
\* kind of its outcome or of the message printed, and the n typed
Iteracion(entrada, leida, opcion, llamada, tipo, n) ==
    [op |-> "menu", entrada |-> entrada, leida |-> leida, opcion |-> opcion,
     llamada |-> llamada, tipo |-> tipo, n |-> n]

\* an iteration that changes nothing but what the process is doing
SoloConsulta(it) ==
    /\ ret' = it
    /\ menu' = [menu EXCEPT !.proceso = IF it.tipo \in Fatales THEN "abortado" ELSE @]
    /\ UNCHANGED <<modulo, contador, personas, emitidos, cedula, hilos>>

\* catch (const std::invalid_argument&): message, continue
MenuEntradaNoNumerica ==
    /\ menu.proceso = "menu"
    /\ \E o \in OpcionesLeidas :
          /\ o.r.tipo = "invalid_argument"
          /\ SoloConsulta(Iteracion(o.entrada, FALSE, 0, "ninguna", "mensaje", 0))

\* std::stoi throws std::out_of_range, which the handler does not catch
MenuEntradaFueraDeRango ==
    /\ menu.proceso = "menu"
    /\ \E o \in OpcionesLeidas :
          /\ o.r.tipo = "out_of_range"
          /\ SoloConsulta(Iteracion(o.entrada, FALSE, 0, "ninguna", "out_of_range", 0))

\* the check of n lets 0 through
RechazaSoloNegativos(n) == n < 0

\* if (n <= 0)
RechazaN(n) == n <= 0

\* the new persons are added to the vector that is held
ColeccionAcumulada(anterior, nuevas) == anterior \o nuevas

\* personas = std::make_unique<std::vector<Persona>>(generarColeccion(n))
ColeccionReemplazada(anterior, nuevas) == nuevas

\* case 0
MenuOpcion0 ==
    /\ menu.proceso = "menu"
    /\ \E e \in Eligen(0), n \in EntradasN :
          IF RechazaN(n)
          THEN SoloConsulta(Iteracion(e, TRUE, 0, "ninguna", "mensaje", n))
          ELSE /\ contador + n <= ContadorInicial + MaxIssued
               /\ \E ss \in [1..n -> SorteosMenu] :
                     \E r \in {generarColeccion(modulo, n, contador, ss)} :
                         /\ contador' = r.contador
                         /\ emitidos' = emitidos \o IdsDe(r.personas)
                         /\ personas' = IF r.tipo = "ok"
                                        THEN ColeccionReemplazada(personas, r.personas)
                                        ELSE personas
                         /\ menu' = IF r.tipo = "ok" THEN [menu EXCEPT !.hay = TRUE]
                                    ELSE [menu EXCEPT !.proceso = "abortado"]
                         /\ ret' = Iteracion(e, TRUE, 0, "generarColeccion", r.tipo, n)
               /\ UNCHANGED <<modulo, cedula, hilos>>

\* the sub-options of the cases 4 to 7: 1 in the whole collection, 2 in a
\* city, 3 in a group, anything else
SubOpciones == 0..3

\* case 1 and case 2: the summaries are printed, or one person by its index
MenuMostrar ==
    /\ menu.proceso = "menu"
    /\ \E k \in {1, 2} : \E e \in Eligen(k) :
          IF SinDatos
          THEN SoloConsulta(Iteracion(e, TRUE, k, "ninguna", "sin_datos", 0))
          ELSE \E indice \in 0..Len(personas) :
                  IF k = 2 /\ indice >= Len(personas)
                  THEN SoloConsulta(Iteracion(e, TRUE, k, "ninguna", "mensaje", 0))
                  ELSE SoloConsulta(Iteracion(e, TRUE, k, "mostrar", "ok", 0))

\* case 3
MenuBuscarPorID ==
    /\ menu.proceso = "menu"
    /\ \E e \in Eligen(3) :
          IF SinDatos
          THEN SoloConsulta(Iteracion(e, TRUE, 3, "ninguna", "sin_datos", 0))
          ELSE \E id \in IdsTecleados :
                  SoloConsulta(Iteracion(e, TRUE, 3, "buscarPorID",
                                         buscarPorID(personas, id).tipo, 0))

\* the selector the case k calls for the sub-option sub and the argument
\* arg, with the kinds of outcome the call can have; a null pointer is
\* dereferenced by mostrar()
SelectorDelMenu(k, sub, arg) ==
    CASE k = 4 /\ sub = 1 ->
            [llamada |-> "buscarMasLongevoPorValor",
             tipos |-> {o.tipo : o \in buscarMasLongevoPorValor(personas)}]
      [] k = 4 /\ sub = 2 ->
            [llamada |-> "buscarMasLongevoPorValorEnCiudad",
             tipos |-> {buscarMasLongevoPorValorEnCiudad(personas, arg).tipo}]
      [] k = 5 /\ sub = 1 ->
            [llamada |-> "buscarMasLongevoPorReferencia",
             tipos |-> {buscarMasLongevoPorReferencia(personas).tipo}]
      [] k = 5 /\ sub = 2 ->
            [llamada |-> "buscarMasLongevoPorReferenciaEnCiudad",
             tipos |-> {buscarMasLongevoPorReferenciaEnCiudad(personas, arg).tipo}]
      [] k = 6 /\ sub = 1 ->
            [llamada |-> "buscarMasPatrimonioPorValor",
             tipos |-> {o.tipo : o \in buscarMasPatrimonioPorValor(personas)}]
      [] k = 6 /\ sub = 2 ->
            [llamada |-> "buscarMasPatrimonioPorValorEnCiudad",
             tipos |-> {buscarMasPatrimonioPorValorEnCiudad(personas, arg).tipo}]
      [] k = 6 /\ sub = 3 ->
            [llamada |-> "buscarMasPatrimonioPorValorEnGrupo",
             tipos |-> {buscarMasPatrimonioPorValorEnGrupo(personas, arg).tipo}]
      [] k = 7 /\ sub = 1 ->
            [llamada |-> "buscarMasPatrimonioPorReferencia",
             tipos |-> {buscarMasPatrimonioPorReferencia(personas).tipo}]
      [] k = 7 /\ sub = 2 ->
            [llamada |-> "buscarMasPatrimonioPorReferenciaEnCiudad",
             tipos |-> {buscarMasPatrimonioPorReferenciaEnCiudad(personas, arg).tipo}]
      [] k = 7 /\ sub = 3 ->
            [llamada |-> "buscarMasPatrimonioPorReferenciaEnGrupo",
             tipos |-> {buscarMasPatrimonioPorReferenciaEnGrupo(personas, arg).tipo}]

\* the call of the case k and what becomes of the process
LlamaSelector(e, k, sub, arg) ==
    \E s \in {SelectorDelMenu(k, sub, arg)} : \E t \in s.tipos :
        SoloConsulta(Iteracion(e, TRUE, k, s.llamada,
                               IF t = "nullptr" THEN "crash" ELSE t, 0))

\* case 4, case 5, case 6, case 7
MenuSelector ==
    /\ menu.proceso = "menu"
    /\ \E k \in 4..7 : \E e \in Eligen(k) :
          IF SinDatos
          THEN SoloConsulta(Iteracion(e, TRUE, k, "ninguna", "sin_datos", 0))
          ELSE \E sub \in SubOpciones :
                  CASE sub = 1 -> LlamaSelector(e, k, sub, "")
                    [] sub = 2 ->
                          \E ciudad \in CiudadesTecleadas :
                              IF ciudad = "" \/ ~ciudadValida(ciudad)
                              THEN SoloConsulta(Iteracion(e, TRUE, k, "ninguna",
                                                          "mensaje", 0))
                              ELSE LlamaSelector(e, k, sub, ciudad)
                    [] sub = 3 /\ k \in {6, 7} ->
                          \E grupo \in GruposTecleados :
                              IF grupo # "A" /\ grupo # "B" /\ grupo # "C"
                              THEN SoloConsulta(Iteracion(e, TRUE, k, "ninguna",
                                                          "mensaje", 0))
                              ELSE LlamaSelector(e, k, sub, grupo)
                    [] OTHER ->
                          SoloConsulta(Iteracion(e, TRUE, k, "ninguna", "mensaje", 0))

\* case 8 and case 9
MenuListar ==
    /\ menu.proceso = "menu"
    /\ \E k \in {8, 9} : \E e \in Eligen(k) :
          IF SinDatos
          THEN SoloConsulta(Iteracion(e, TRUE, k, "ninguna", "sin_datos", 0))
          ELSE \E grupo \in GruposTecleados :
                  IF k = 8
                  THEN SoloConsulta(Iteracion(e, TRUE, k, "listarPersonasPorValorEnGrupo",
                            listarPersonasPorValorEnGrupo(personas, grupo).tipo, 0))
                  ELSE SoloConsulta(Iteracion(e, TRUE, k,
                            "listarPersonasPorReferenciaEnGrupo",
                            listarPersonasPorReferenciaEnGrupo(personas, grupo).tipo, 0))

\* case 10 and case 11
MenuVerificar ==
    /\ menu.proceso = "menu"
    /\ \E k \in {10, 11} : \E e \in Eligen(k) :
          IF SinDatos
          THEN SoloConsulta(Iteracion(e, TRUE, k, "ninguna", "sin_datos", 0))
          ELSE IF k = 10
               THEN SoloConsulta(Iteracion(e, TRUE, k, "verificarGruposMasivoPorValor",
                         verificarGruposMasivoPorValor(personas).tipo, 0))
               ELSE SoloConsulta(Iteracion(e, TRUE, k, "verificarGruposMasivoPorReferencia",
                         verificarGruposMasivoPorReferencia(personas).tipo, 0))

\* the statistic the case k calls
EstadisticaDelMenu(k) ==
    CASE k = 12 -> "encontrarGrupoMayorPatrimonioPorValor"
      [] k = 13 -> "encontrarGrupoMayorPatrimonioPorReferencia"
      [] k = 14 -> "encontrarGrupoMayorLongevidadPorValor"
      [] k = 15 -> "encontrarGrupoMayorLongevidadPorReferencia"

\* case 12, case 13, case 14, case 15: the label is printed
MenuEstadistica ==
    /\ menu.proceso = "menu"
    /\ \E k \in 12..15 : \E e \in Eligen(k) :
          IF SinDatos
          THEN SoloConsulta(Iteracion(e, TRUE, k, "ninguna", "sin_datos", 0))
          ELSE SoloConsulta(Iteracion(e, TRUE, k, EstadisticaDelMenu(k), "etiqueta", 0))

\* case 16 and case 17: the monitor prints or exports its records
MenuMonitor ==
    /\ menu.proceso = "menu"
    /\ \E k \in {16, 17} : \E e \in Eligen(k) :
          SoloConsulta(Iteracion(e, TRUE, k, "monitor", "ok", 0))

\* case 18, while (opcion != 18), return 0
MenuSalir ==
    /\ menu.proceso = "menu"
    /\ \E e \in Eligen(OpcionSalir) :
          /\ ret' = Iteracion(e, TRUE, OpcionSalir, "ninguna", "salir", 0)
          /\ menu' = [menu EXCEPT !.proceso = "salida0"]
          /\ UNCHANGED <<modulo, contador, personas, emitidos, cedula, hilos>>

\* default
MenuOpcionInvalida ==
    /\ menu.proceso = "menu"
    /\ \E o \in OpcionesLeidas :
          /\ o.r.tipo = "ok"
          /\ o.r.valor \notin 0..OpcionSalir
          /\ SoloConsulta(Iteracion(o.entrada, TRUE, o.r.valor, "ninguna", "mensaje", 0))

NextMenu ==
    \/ MenuEntradaNoNumerica
    \/ MenuEntradaFueraDeRango
    \/ MenuOpcion0
    \/ MenuMostrar
    \/ MenuBuscarPorID
    \/ MenuSelector
    \/ MenuListar
    \/ MenuVerificar
    \/ MenuEstadistica
    \/ MenuMonitor
    \/ MenuSalir
    \/ MenuOpcionInvalida

SpecMenu == Init /\ [][NextMenu]_vars

----------------------------------------------------------------------------
(* The claims about the menu *)

\* the calls of the menu that read the collection
LlamadasSobreLaColeccion ==
    {"mostrar", "buscarPorID", "verificarGruposMasivoPorValor",
     "verificarGruposMasivoPorReferencia", "listarPersonasPorValorEnGrupo",
     "listarPersonasPorReferenciaEnGrupo"}
        \cup {SelectorDelMenu(k, sub, "A").llamada : k \in 4..7, sub \in 1..2}
        \cup {SelectorDelMenu(k, 3, "A").llamada : k \in 6..7}
        \cup {EstadisticaDelMenu(k) : k \in 12..15}

\* C23: the menu calls a search, listing, verification or statistics
\* function only while a collection is held and is not empty, and an option
\* 1..15 chosen while no collection is held only prints the no-data message
\* and calls nothing.
C23_LlamaSoloConDatos ==
    ret.op = "menu" =>
        /\ ret.llamada \in LlamadasSobreLaColeccion => menu.hay /\ personas # <<>>
        /\ (ret.leida /\ ret.opcion \in 1..15 /\ (~menu.hay \/ personas = <<>>)) =>
               ret.llamada = "ninguna" /\ ret.tipo = "sin_datos"

\* an option 1..15 was chosen before any collection was generated and the
\* no-data message was printed
C23_Witness ==
    /\ ret.op = "menu"
    /\ ret.leida /\ ret.opcion = 12
    /\ ~menu.hay
    /\ ret.tipo = "sin_datos"
    /\ menu.proceso = "menu"

\* C24: option 0 with n <= 0 is rejected: generarColeccion is not called,
\* no id is consumed and the collection, held or not, stays exactly as it
\* was.
C24_NoPositivoNoGenera ==
    [][(ret'.op = "menu" /\ ret'.leida /\ ret'.opcion = 0 /\ ret'.n <= 0) =>
          /\ ret'.llamada = "ninguna"
          /\ contador' = contador
          /\ emitidos' = emitidos
          /\ personas' = personas
          /\ menu' = menu]_vars

\* option 0 with n = 0 was rejected while a collection of two persons was
\* held, and the collection is still held
C24_Witness ==
    /\ ret.op = "menu"
    /\ ret.leida /\ ret.opcion = 0 /\ ret.n = 0
    /\ ret.tipo = "mensaje"
    /\ menu.hay /\ Len(personas) = 2
    /\ IdsDe(personas) = emitidos

\* C25: the collection changes only by whole replacement: after a
\* successful option 0 with n >= 1 it consists of exactly the n persons
\* generated by this call and of none of the persons held before, and every
\* other iteration of the menu leaves it as it was.
C25_SoloReemplazoCompleto ==
    [][IF ret'.op = "menu" /\ ret'.llamada = "generarColeccion" /\ ret'.tipo = "ok"
       THEN /\ ret'.n >= 1
            /\ menu'.hay
            /\ Len(personas') = ret'.n
            /\ emitidos' = emitidos \o IdsDe(personas')
            /\ \A i \in 1..Len(personas'), j \in 1..Len(personas) :
                   personas'[i].id # personas[j].id
       ELSE personas' = personas /\ menu'.hay = menu.hay]_vars

\* a collection of two persons was replaced by a collection of one
C25_Witness ==
    /\ ret.op = "menu"
    /\ ret.llamada = "generarColeccion" /\ ret.tipo = "ok" /\ ret.n = 1
    /\ Len(emitidos) = 3
    /\ Len(personas) = 1 /\ personas[1].id = emitidos[3]

\* C22: no failure of an engine operation ends the process: after every
\* iteration that chose one of the options 0..17 (an invalid argument, no
\* data, no person of the city or group, an id that is not found included)
\* the process is back at the menu.
C22_NingunFalloTermina ==
    (ret.op = "menu" /\ ret.leida /\ ret.opcion \in 0..(OpcionSalir - 1)) =>
        menu.proceso = "menu"

\* C30: every entry that is no valid option (a word, a number outside
\* 0..18, a numeral too large for an int) gets a message, leaves the
\* collection as it was and is followed by the menu again; the entry 18
\* ends the loop with exit code 0, and the loop ends with exit code 0 on no
\* other entry.
C30_SoloSaleCon18 ==
    [][(menu.proceso = "menu" /\ ret'.op = "menu") =>
          /\ (~ret'.leida \/ ret'.opcion \notin 0..OpcionSalir) =>
                 /\ menu'.proceso = "menu"
                 /\ ret'.tipo = "mensaje"
                 /\ personas' = personas
                 /\ menu'.hay = menu.hay
          /\ (ret'.leida /\ ret'.opcion = OpcionSalir) => menu'.proceso = "salida0"
          /\ menu'.proceso = "salida0" => ret'.leida /\ ret'.opcion = OpcionSalir]_vars

====
